---------------------------- MODULE Spec2Model ----------------------------
(***************************************************************************)
(* Model of pygeoapi.provider.postgresql_ext (src/src/postgresql_ext).     *)
(*                                                                         *)
(* Six state machines share this module:                                   *)
(*   Spec         the identifier-sequence cache and get()'s prev/next      *)
(*                navigation, run by concurrent request handlers           *)
(*   SpecFeature  _create_feature on one record                            *)
(*   SpecMapping  _get_field_mapping_data                                  *)
(*   SpecLinks    link template rendering, href resolution and merging     *)
(*   SpecResolve  _resolve_link_href against a normalized base              *)
(*   SpecBaseUrl  _determine_links_base_url                                 *)
(* Each specification moves its own variables and pins the others.         *)
(***************************************************************************)
EXTENDS Integers, Sequences, FiniteSets, TLC

VARIABLES
    rows,       \* primary keys of the rows present in the table (the store)
    hasProps,   \* the table has at least one attribute column that is selected
    now,        \* the cache timer (seconds)
    cache,      \* _sessions_cache entry of hashkey(table_model)
    th,         \* per request handler: position in get() and its locals
    cf,         \* SpecFeature: inputs and result of _create_feature
    fm,         \* SpecMapping: inputs and result of _get_field_mapping_data
    lk,         \* SpecLinks: inputs and results of the link functions
    rh,         \* SpecResolve: inputs and result of _resolve_link_href
    bu          \* SpecBaseUrl: inputs and result of _determine_links_base_url

vars == <<rows, hasProps, now, cache, th, cf, fm, lk, rh, bu>>

(***************************************************************************)
(* Bounds                                                                  *)
(***************************************************************************)
MaxRows == 3
MaxTicks == 2

\* ttl of _sessions_cache, in seconds
TTL == 86400

\* the clock advances in steps of half the ttl: two steps reach the expiry
\* instant exactly
TickLen == TTL \div 2

\* primary keys: 9, 10, 11, ... so that stringified keys differ in length
Keys == 9 .. (8 + MaxRows)

Threads == {"h1", "h2"}

None == <<"None">>

\* the value of another specification's variable
Off == [pc |-> "off"]

(***************************************************************************)
(* str() of a non-negative integer, as its sequence of decimal digits      *)
(***************************************************************************)
RECURSIVE Str(_)
Str(n) == IF n < 10 THEN <<n>> ELSE Str(n \div 10) \o <<n % 10>>

\* the store's coercion of a textual identifier to the key column's integer
RECURSIVE ParseInt(_)
ParseInt(s) ==
    IF Len(s) = 0 THEN 0
    ELSE 10 * ParseInt(SubSeq(s, 1, Len(s) - 1)) + s[Len(s)]

\* Python's ordering of str: lexicographic, a proper prefix is smaller
RECURSIVE StrLess(_, _)
StrLess(a, b) ==
    IF Len(b) = 0 THEN FALSE
    ELSE IF Len(a) = 0 THEN TRUE
    ELSE IF a[1] # b[1] THEN a[1] < b[1]
    ELSE StrLess(Tail(a), Tail(b))

\* the rows of a set of keys, ascending by key (ORDER BY id ASC)
RECURSIVE OrderByAsc(_)
OrderByAsc(S) ==
    IF S = {} THEN <<>>
    ELSE LET m == CHOOSE x \in S : \A y \in S : x <= y
         IN <<m>> \o OrderByAsc(S \ {m})

QueryIdsDesc(S) ==
    LET a == OrderByAsc(S)
    IN [i \in 1 .. Len(a) |-> Str(a[Len(a) + 1 - i])]

\* body of _get_table_ids: query the id column ascending, stringify each
QueryIds(S) ==
    LET a == OrderByAsc(S)
    IN [i \in 1 .. Len(a) |-> Str(a[i])]

\* list.index: position of the first equal element, 0 for ValueError -> None
_find_identifier_index(ids, identifier) ==
    IF \E i \in 1 .. Len(ids) : ids[i] = identifier
    THEN CHOOSE i \in 1 .. Len(ids) :
            ids[i] = identifier /\ \A j \in 1 .. (i - 1) : ids[j] # identifier
    ELSE 0

PrevNoWrap(ids, index) ==
    IF Len(ids) = 1 THEN ids[1]
    ELSE IF index = 1 THEN ids[1]
    ELSE ids[index - 1]

\* prev of the element at index (1-based here, 0-based in the source)
PrevOf(ids, index) ==
    IF Len(ids) = 1 THEN ids[1]
    ELSE IF index = 1 THEN ids[Len(ids)]
    ELSE ids[index - 1]

\* next of the element at index
NextOf(ids, index) ==
    IF Len(ids) = 1 THEN ids[1]
    ELSE IF index = Len(ids) THEN ids[1]
    ELSE ids[index + 1]

(***************************************************************************)
(* TTLCache                                                                *)
(***************************************************************************)
\* ids: the cached value; expires: the timer value at which the entry stops
\* being served; from: the rows the value was computed from (history only)
NoEntry == [present |-> FALSE, ids |-> <<>>, expires |-> 0, from |-> {}]

LiveAtExpiry(c, t) == c.present /\ t <= c.expires

\* TTLCache.__getitem__ / __contains__: an entry is live while timer < expires
Live(c, t) == c.present /\ t < c.expires

\* TTLCache.__setitem__: expires = timer + ttl
Stored(v, from, t) == [present |-> TRUE, ids |-> v, expires |-> t + TTL, from |-> from]

(***************************************************************************)
(* Request handlers                                                        *)
(***************************************************************************)
Idle == [pc |-> "idle", identifier |-> <<>>, ids |-> <<>>, v |-> <<>>,
         from |-> {}, call |-> 0, lookups |-> 0, fetches |-> 0, pops |-> 0,
         rebuilds |-> 0, rowsAtPop |-> {}, result |-> "none",
         prev |-> None, next |-> None]

\* the identifiers a request may carry: the canonical text of a key, or the
\* first key written with a leading zero (the store coerces both to the key)
Identifiers == {Str(k) : k \in Keys} \cup {<<0>> \o Str(9)}

\* lines 319-342 of _set_prev_and_next, on the ids a call returned
AfterIds(r, ids) ==
    LET index == _find_identifier_index(ids, r.identifier)
    IN IF index = 0
       THEN IF r.call = 1
            THEN [r EXCEPT !.ids = ids, !.pc = "pop"]
            ELSE [r EXCEPT !.ids = ids, !.pc = "done", !.result = "noNav"]
       ELSE [r EXCEPT !.ids = ids, !.pc = "done", !.result = "nav",
                      !.prev = PrevOf(ids, index), !.next = NextOf(ids, index)]

\* get(): session.get, then _create_feature, then _set_prev_and_next.
\* A handler that has returned (or raised) takes the next request with
\* fresh locals.
Get(t, identifier) ==
    /\ th[t].pc \in {"idle", "done"}
    /\ th' = [th EXCEPT ![t] =
                IF ParseInt(identifier) \notin rows
                THEN [Idle EXCEPT !.pc = "done", !.identifier = identifier,
                               !.result = "NotFound"]
                ELSE IF hasProps
                THEN [Idle EXCEPT !.pc = "done", !.identifier = identifier,
                               !.result = "KeyError"]
                ELSE [Idle EXCEPT !.pc = "lookup", !.identifier = identifier,
                               !.call = 1]]
    /\ UNCHANGED <<rows, hasProps, now, cache, cf, fm, lk, rh, bu>>

\* the cached wrapper of _get_table_ids: try cache[k]
Lookup(t) ==
    /\ th[t].pc = "lookup"
    /\ LET r == [th[t] EXCEPT !.lookups = @ + 1]
       IN th' = [th EXCEPT ![t] =
                    IF Live(cache, now)
                    THEN AfterIds(r, cache.ids)
                    ELSE [r EXCEPT !.pc = "fetch"]]
    /\ UNCHANGED <<rows, hasProps, now, cache, cf, fm, lk, rh, bu>>

\* the wrapper, on KeyError: v = func(...), the query of the store
Fetch(t) ==
    /\ th[t].pc = "fetch"
    /\ th' = [th EXCEPT ![t] =
                [@ EXCEPT !.pc = "store", !.v = QueryIds(rows), !.from = rows,
                          !.fetches = @ + 1,
                          !.rebuilds = IF th[t].call = 2 THEN @ + 1 ELSE @]]
    /\ UNCHANGED <<rows, hasProps, now, cache, cf, fm, lk, rh, bu>>

\* the wrapper: cache[k] = v; return v
Store(t) ==
    /\ th[t].pc = "store"
    /\ cache' = Stored(th[t].v, th[t].from, now)
    /\ th' = [th EXCEPT ![t] =
                AfterIds([@ EXCEPT !.v = <<>>, !.from = {}], th[t].v)]
    /\ UNCHANGED <<rows, hasProps, now, cf, fm, lk, rh, bu>>

\* index is None: cache.pop(cache_key, None), then the second call
Invalidate(t) ==
    /\ th[t].pc = "pop"
    /\ cache' = IF Live(cache, now) THEN NoEntry ELSE cache
    /\ th' = [th EXCEPT ![t] = [@ EXCEPT !.pc = "lookup", !.call = 2,
                                         !.pops = @ + 1, !.rowsAtPop = rows]]
    /\ UNCHANGED <<rows, hasProps, now, cf, fm, lk, rh, bu>>

\* another client of the store inserts a row; the key column is a serial,
\* so the new key is the next one
Insert(k) ==
    /\ k \notin rows
    /\ \A j \in Keys : j < k => j \in rows
    /\ rows' = rows \cup {k}
    /\ UNCHANGED <<hasProps, now, cache, th, cf, fm, lk, rh, bu>>

\* time passes
Tick ==
    /\ now < MaxTicks * TickLen
    /\ now' = now + TickLen
    /\ UNCHANGED <<rows, hasProps, cache, th, cf, fm, lk, rh, bu>>

NavInit ==
    /\ rows \in {9 .. n : n \in 8 .. (8 + MaxRows)}
    /\ hasProps \in BOOLEAN
    /\ now = 0
    /\ cache = NoEntry
    /\ th = [t \in Threads |-> Idle]

NavIdle ==
    /\ rows = {}
    /\ hasProps = FALSE
    /\ now = 0
    /\ cache = NoEntry
    /\ th = [t \in Threads |-> Idle]

Next ==
    \/ \E t \in Threads, identifier \in Identifiers : Get(t, identifier)
    \/ \E t \in Threads : Lookup(t)
    \/ \E t \in Threads : Fetch(t)
    \/ \E t \in Threads : Store(t)
    \/ \E t \in Threads : Invalidate(t)
    \/ \E k \in Keys : Insert(k)
    \/ Tick

Init == NavInit /\ cf = Off /\ fm = Off /\ lk = Off /\ rh = Off /\ bu = Off


Spec == Init /\ [][Next]_vars

(***************************************************************************)
(* Claims about the identifier sequence and prev/next                      *)
(***************************************************************************)
Range(f) == {f[i] : i \in DOMAIN f}

Served(t) == th[t].pc = "done" /\ th[t].result \in {"nav", "noNav"}

\* C1: for every identifier sequence a handler navigates in and every id in
\* it, prev and next are circular: prev of the first is the last, next of
\* the last is the first, next(prev(id)) = id and prev(next(id)) = id; in a
\* sequence of length 1 both are the id itself; and the prev/next the
\* handler sets are those of the requested identifier.
C1_PrevNextCircular ==
    \A t \in Threads :
        th[t].result = "nav" =>
            LET ids == th[t].ids
                n == Len(ids)
                at == _find_identifier_index(ids, th[t].identifier)
            IN /\ at > 0
               /\ th[t].prev = PrevOf(ids, at)
               /\ th[t].next = NextOf(ids, at)
               /\ PrevOf(ids, 1) = ids[n]
               /\ NextOf(ids, n) = ids[1]
               /\ \A i \in 1 .. n :
                    /\ NextOf(ids, _find_identifier_index(ids, PrevOf(ids, i))) = ids[i]
                    /\ PrevOf(ids, _find_identifier_index(ids, NextOf(ids, i))) = ids[i]
                    /\ n = 1 => PrevOf(ids, i) = ids[i] /\ NextOf(ids, i) = ids[i]

\* a handler served the first of three identifiers: its prev wrapped around
C1_Witness ==
    \E t \in Threads :
        /\ th[t].result = "nav"
        /\ Len(th[t].ids) = 3
        /\ th[t].identifier = th[t].ids[1]
        /\ th[t].prev = th[t].ids[3]
        /\ th[t].next = th[t].ids[2]

\* C2: a get whose identifier is absent from the sequence invalidates the
\* entry and the sequence is recomputed exactly once: at most two lookups
\* and one rebuild per get, and the sequence the handler ends with was
\* computed from the store no earlier than its invalidation; a get that
\* still misses returns the feature without prev and next.
C2_RebuildOnceAfterMiss ==
    \A t \in Threads :
        Served(t) =>
            /\ th[t].lookups <= 2
            /\ th[t].rebuilds <= 1
            /\ th[t].pops <= 1
            /\ th[t].pops = 1 =>
                 th[t].rowsAtPop \subseteq {ParseInt(x) : x \in Range(th[t].ids)}
            /\ th[t].result = "noNav" =>
                 th[t].pops = 1 /\ th[t].prev = None /\ th[t].next = None

\* C3: get-or-compute is atomic per key: two handlers never both run the
\* store query of one key at the same time.
C3_SingleFetch ==
    \A t, u \in Threads :
        t # u => ~(th[t].pc = "store" /\ th[u].pc = "store")

\* the timer value at which an entry was stored
StoredAt(c) == c.expires - TTL

\* C4: an entry is served, without a store query, to every lookup made
\* less than 24 hours after it was stored; a lookup at or after that
\* instant queries the store, and the sequence it returns holds every row
\* of the table, so every row inserted since the previous computation.
C4_TTLExpiry ==
    [][\A t \in Threads :
        /\ (th[t].pc = "lookup" /\ th'[t] # th[t]) =>
              IF cache.present /\ now - StoredAt(cache) < TTL
              THEN /\ th'[t].ids = cache.ids
                   /\ th'[t].fetches = th[t].fetches
                   /\ th'[t].pc \notin {"fetch", "store"}
              ELSE th'[t].pc = "fetch"
        /\ (th[t].pc = "fetch" /\ th'[t] # th[t]) =>
              /\ th'[t].pc = "store"
              /\ th'[t].fetches = th[t].fetches + 1
              /\ \A k \in rows : Str(k) \in Range(th'[t].v)
              /\ cache.present => \A x \in Range(cache.ids) : x \in Range(th'[t].v)
        /\ (th[t].pc = "store" /\ th'[t] # th[t]) =>
              /\ th'[t].ids = th[t].v
              /\ cache'.ids = th[t].v
              /\ StoredAt(cache') = now
      ]_vars

\* a handler re-queried after the entry expired and got a row the expired
\* entry does not have
C4_Witness ==
    \E t \in Threads :
        /\ th[t].pc = "store"
        /\ th[t].call = 1
        /\ cache.present
        /\ now >= cache.expires
        /\ Len(th[t].v) > Len(cache.ids)

\* C5 as stated: the cached list of stringified keys is strictly ascending
\* (as a list of strings), has no duplicates and holds exactly the keys of
\* the rows present when it was computed.
C5_SortedAsStrings ==
    cache.present =>
        /\ \A i, j \in 1 .. Len(cache.ids) :
                i < j => StrLess(cache.ids[i], cache.ids[j])
        /\ Range(cache.ids) = {Str(k) : k \in cache.from}

\* C5 amended: the cached list is strictly ascending by primary-key value,
\* has no duplicates and holds exactly the stringified keys of the rows
\* present when it was computed.
C5_SortedByKey ==
    cache.present =>
        /\ \A i, j \in 1 .. Len(cache.ids) :
                i < j => /\ ParseInt(cache.ids[i]) < ParseInt(cache.ids[j])
                         /\ cache.ids[i] # cache.ids[j]
        /\ Range(cache.ids) = {Str(k) : k \in cache.from}
        /\ Len(cache.ids) = Cardinality(cache.from)
        /\ \A i \in 1 .. Len(cache.ids) : cache.ids[i] = Str(ParseInt(cache.ids[i]))

\* a cached sequence of three keys whose string order differs from key order
C5_Witness ==
    /\ cache.present
    /\ Len(cache.ids) = 3
    /\ StrLess(cache.ids[2], cache.ids[1])

(***************************************************************************)
(* _create_feature                                                         *)
(***************************************************************************)
EmptyDict == [k \in {} |-> None]

\* attribute columns of the table, and the raw values a record may hold
AttrNames == {"status", "name"}

AttrValues(k) == IF k = "status" THEN {3, 9} ELSE {7}

\* item.__dict__ after the bookkeeping, geometry and id keys are popped
ItemDicts ==
    UNION {[S -> {3, 7, 9}] : S \in SUBSET AttrNames} 

\* the mapping table of get_field_mapping_data for the one mapped field:
\* (code, label) pairs
MappingData == [status |-> <<<< <<3>>, "Active" >>, << <<3>>, "Other" >>>>]

\* _add_mapped_values as the commented-out lines 344-355 have it: the label
\* of the first pair whose code equals str(value), else the value
MappedValue(data, value) ==
    IF \E i \in 1 .. Len(data) : data[i][1] = Str(value)
    THEN LET i == CHOOSE i \in 1 .. Len(data) :
                    /\ data[i][1] = Str(value)
                    /\ \A j \in 1 .. (i - 1) : data[j][1] # Str(value)
         IN data[i][2]
    ELSE value

\* _get_properties: the selection if not empty, else the configured fields,
\* without the excluded properties
_get_properties(select_properties, fields, excluded_properties) ==
    {key \in (IF select_properties # {} THEN select_properties ELSE fields) :
        key \notin excluded_properties}

\* geom.Transform(coord_trans): a reprojection moves the coordinates
Transform(xy) == <<xy[1] + 10, xy[2] + 20>>

\* geom.SwapXY()
SwapXY(xy) == <<xy[2], xy[1]>>

\* _get_target_crs: str() of the CRS the URI names
_get_target_crs(uri) ==
    CASE uri = "http://www.opengis.net/def/crs/EPSG/0/4326" -> "EPSG:4326"
      [] uri = "http://www.opengis.net/def/crs/OGC/1.3/CRS84" -> "OGC:CRS84"
      [] OTHER -> "EPSG:25833"

CrsUris == {"http://www.opengis.net/def/crs/EPSG/0/4326",
            "http://www.opengis.net/def/crs/OGC/1.3/CRS84",
            "http://www.opengis.net/def/crs/EPSG/0/25833"}

\* lines 226-240: the geometry member of the feature
FeatureGeometry(geom, coord_trans, target_crs) ==
    IF geom = None THEN None
    ELSE LET g1 == IF coord_trans THEN Transform(geom) ELSE geom
             g2 == IF target_crs = "EPSG:4326" THEN SwapXY(g1) ELSE g1
         IN g2

\* _objectify_properties: a dotted key becomes a path of nested objects;
\* the keys of this model have no dot, so each is its own path
_objectify_properties(properties) ==
    [k \in DOMAIN properties |-> properties[k]]

\* lines 218-258.  The loop of lines 250-252 assigns into
\* feature['properties'], a key the feature does not have yet: the first
\* selected key the record holds raises KeyError.  Line 254 then stores the
\* local dict, which nothing has written to.
_create_feature(item_dict, fields, select, excluded, geom, coord_trans, target_crs) ==
    LET keys == _get_properties(select, fields, excluded)
    IN IF \E key \in keys : key \in DOMAIN item_dict
       THEN [status |-> "KeyError"]
       ELSE [status |-> "ok",
             geometry |-> FeatureGeometry(geom, coord_trans, target_crs),
             properties |-> _objectify_properties(EmptyDict)]

FeatureInit ==
    /\ cf \in [pc : {"input"},
               item_dict : ItemDicts,
               fields : SUBSET AttrNames,
               select_properties : SUBSET AttrNames,
               excluded_properties : SUBSET AttrNames,
               geom : {None, <<1, 2>>},
               coord_trans : BOOLEAN,
               crs_uri : CrsUris,
               result : {None}]
    /\ \A k \in DOMAIN cf.item_dict : cf.item_dict[k] \in AttrValues(k)

\* query() or get() assembles the feature of one record
CreateFeature ==
    /\ cf.pc = "input"
    /\ cf' = [cf EXCEPT
                !.pc = "done",
                !.result = _create_feature(cf.item_dict, cf.fields,
                               cf.select_properties, cf.excluded_properties,
                               cf.geom, cf.coord_trans,
                               _get_target_crs(cf.crs_uri))]
    /\ UNCHANGED <<rows, hasProps, now, cache, th, fm, lk, rh, bu>>

InitFeature == NavIdle /\ FeatureInit /\ fm = Off /\ lk = Off /\ rh = Off /\ bu = Off

NextFeature == CreateFeature

SpecFeature == InitFeature /\ [][NextFeature]_vars

\* the attributes of the record that the feature is to carry
Wanted(c) ==
    {k \in DOMAIN c.item_dict :
        k \in (IF c.select_properties # {} THEN c.select_properties ELSE c.fields)
            \ c.excluded_properties}

\* C6: an assembled feature carries, for the mapped field, the label of the
\* first pair whose code equals the stringified raw value, and the raw value
\* itself when no code matches.
C6_MappedValues ==
    (cf.pc = "done" /\ "status" \in Wanted(cf)) =>
        /\ cf.result.status = "ok"
        /\ "status" \in DOMAIN cf.result.properties
        /\ cf.result.properties["status"] =
                MappedValue(MappingData["status"], cf.item_dict["status"])

\* C8: the properties of the feature are exactly the record's attributes
\* named by the selection (or, without one, the configured fields), minus
\* the excluded ones, and assembling a record that has such an attribute
\* does not raise.
C8_SelectedProperties ==
    cf.pc = "done" =>
        /\ cf.result.status = "ok"
        /\ DOMAIN cf.result.properties = Wanted(cf)
        /\ \A k \in Wanted(cf) : cf.result.properties[k] = cf.item_dict[k]

(***************************************************************************)
(* _get_field_mapping_data                                                 *)
(***************************************************************************)
MappedFields == {"status", "kind"}

\* what a field's declaration holds: a 'codelist' URL, a 'codelist' key with
\* an empty URL, a 'table', both a codelist and a table, or neither
DeclKinds == {"codelist", "emptyurl", "table", "both", "neither"}

HasCodelistKey(kind) == kind \in {"codelist", "emptyurl", "both"}

HasTableKey(kind) == kind \in {"table", "both"}

\* _create_field_mapping_data_from_codelists: a declaration without a URL
\* is skipped, a failing _get_codelist is logged and the field left out
_create_field_mapping_data_from_codelists(decl, codelistOk) ==
    LET got == {f \in DOMAIN decl :
                    /\ HasCodelistKey(decl[f])
                    /\ decl[f] # "emptyurl"
                    /\ codelistOk[f]}
    IN [f \in got |-> "codelist"]

\* _create_field_mapping_data_from_tables inside the connection: a failing
\* query is logged and the field left out
_create_field_mapping_data_from_tables(decl, tableOk) ==
    LET got == {f \in DOMAIN decl : HasTableKey(decl[f]) /\ tableOk[f]}
    IN [f \in got |-> "table"]

\* dict.update
Update(a, b) ==
    [k \in DOMAIN a \cup DOMAIN b |-> IF k \in DOMAIN b THEN b[k] ELSE a[k]]

\* _get_field_mapping_data: engine.connect() of line 772 is outside the
\* try of lines 774-782, so a connection that cannot be opened raises
\* out of the function
_get_field_mapping_data(decl, codelistOk, tableOk, connectOk) ==
    LET fromCodelists == _create_field_mapping_data_from_codelists(decl, codelistOk)
        anyTable == \E f \in DOMAIN decl : HasTableKey(decl[f])
    IN IF anyTable /\ ~connectOk
       THEN [status |-> "raised"]
       ELSE [status |-> "ok",
             data |-> IF anyTable
                      THEN Update(fromCodelists,
                                  _create_field_mapping_data_from_tables(decl, tableOk))
                      ELSE fromCodelists]

MappingInit ==
    fm \in [pc : {"input"},
            decl : UNION {[S -> DeclKinds] : S \in SUBSET MappedFields},
            codelistOk : [MappedFields -> BOOLEAN],
            tableOk : [MappedFields -> BOOLEAN],
            connectOk : BOOLEAN,
            result : {None}]

\* the mapping table of a namespace is built
BuildMapping ==
    /\ fm.pc = "input"
    /\ fm' = [fm EXCEPT
                !.pc = "done",
                !.result = _get_field_mapping_data(fm.decl, fm.codelistOk,
                                                   fm.tableOk, fm.connectOk)]
    /\ UNCHANGED <<rows, hasProps, now, cache, th, cf, lk, rh, bu>>

InitMapping == NavIdle /\ cf = Off /\ MappingInit /\ lk = Off /\ rh = Off /\ bu = Off

NextMapping == BuildMapping

SpecMapping == InitMapping /\ [][NextMapping]_vars

\* the declared fields one of whose sources delivered its pairs
Succeeded(m) ==
    {f \in DOMAIN m.decl :
        \/ m.decl[f] \in {"codelist", "both"} /\ m.codelistOk[f]
        \/ m.decl[f] \in {"table", "both"} /\ m.connectOk /\ m.tableOk[f]}

\* C7: a network or store failure while building one field's mapping never
\* raises and never removes another field: the table holds exactly the
\* declared fields whose source succeeded.
C7_FailureOmitsOnlyThatField ==
    fm.pc = "done" =>
        /\ fm.result.status = "ok"
        /\ DOMAIN fm.result.data = Succeeded(fm)

(***************************************************************************)
(* Strings of the link functions.  A string is a sequence of tokens: each  *)
(* token stands for a run of characters, "/" and ":" for themselves.       *)
(* "http" and "x" are runs of letters, "42" a run of digits, ".." the      *)
(* dot-dot segment; the strings of this model hold no "?" and no "#".      *)
(***************************************************************************)
Empty == <<>>

\* tokens whose first character is a letter
AlphaTokens == {"http", "x", "items", "collections", "geoapi"}

\* tokens made of characters a scheme may hold (letters, digits, + - .)
SchemeTokens == AlphaTokens \cup {"42", ".."}

\* urllib.parse.uses_relative and uses_netloc, among the schemes of the model
UsesRelative == {Empty, <<"http">>}

UsesNetloc == {Empty, <<"http">>}

\* position of the first token equal to c at or after position i, 0 if none
RECURSIVE FindFrom(_, _, _)
FindFrom(s, c, i) ==
    IF i > Len(s) THEN 0
    ELSE IF s[i] = c THEN i
    ELSE FindFrom(s, c, i + 1)

StartsWith(s, p) == Len(s) >= Len(p) /\ SubSeq(s, 1, Len(p)) = p

EndsWith(s, p) == Len(s) >= Len(p) /\ SubSeq(s, Len(s) - Len(p) + 1, Len(s)) = p

\* str.rstrip('/')
RECURSIVE RStripSlash(_)
RStripSlash(s) ==
    IF Len(s) > 0 /\ s[Len(s)] = "/" THEN RStripSlash(SubSeq(s, 1, Len(s) - 1))
    ELSE s

\* position of the first occurrence of the substring m in s, 0 if none
RECURSIVE IndexOfSub(_, _, _)
IndexOfSub(s, m, i) ==
    IF i + Len(m) - 1 > Len(s) THEN 0
    ELSE IF SubSeq(s, i, i + Len(m) - 1) = m THEN i
    ELSE IndexOfSub(s, m, i + 1)

\* urllib.parse.urlsplit: the scheme is what precedes the first ":" when
\* that is a non-empty run of scheme characters starting with a letter; the
\* netloc is what follows a leading "//" up to the next "/"
urlsplit(url) ==
    LET Authority(scheme, rest, j) ==
            [scheme |-> scheme,
             netloc |-> IF j = 0 THEN SubSeq(rest, 3, Len(rest))
                        ELSE SubSeq(rest, 3, j - 1),
             path |-> IF j = 0 THEN Empty ELSE SubSeq(rest, j, Len(rest))]
        AfterScheme(scheme, rest) ==
            IF StartsWith(rest, <<"/", "/">>)
            THEN Authority(scheme, rest, FindFrom(rest, "/", 3))
            ELSE [scheme |-> scheme, netloc |-> Empty, path |-> rest]
        AtColon(i) ==
            IF /\ i > 1
               /\ url[1] \in AlphaTokens
               /\ \A j \in 1 .. (i - 1) : url[j] \in SchemeTokens
            THEN AfterScheme(SubSeq(url, 1, i - 1), SubSeq(url, i + 1, Len(url)))
            ELSE AfterScheme(Empty, url)
    IN AtColon(FindFrom(url, ":", 1))

\* urllib.parse.urlunsplit, without query and fragment
urlunsplit(scheme, netloc, path) ==
    LET WithScheme(u) == IF scheme # Empty THEN scheme \o <<":">> \o u ELSE u
    IN WithScheme(IF netloc # Empty
                     \/ (scheme # Empty /\ scheme \in UsesNetloc
                            /\ ~StartsWith(path, <<"/", "/">>))
                  THEN <<"/", "/">> \o netloc
                        \o (IF path # Empty /\ path[1] # "/" THEN <<"/">> ELSE Empty)
                        \o path
                  ELSE path)

\* str.split('/')
RECURSIVE SplitSlash(_)
SplitSlash(s) ==
    LET i == FindFrom(s, "/", 1)
    IN IF i = 0 THEN <<s>>
       ELSE <<SubSeq(s, 1, i - 1)>> \o SplitSlash(SubSeq(s, i + 1, Len(s)))

\* '/'.join
RECURSIVE JoinSlash(_)
JoinSlash(segs) ==
    IF Len(segs) = 0 THEN Empty
    ELSE IF Len(segs) = 1 THEN segs[1]
    ELSE segs[1] \o <<"/">> \o JoinSlash(Tail(segs))

\* segments[1:-1] = filter(None, segments[1:-1])
DropEmptyInner(segs) ==
    IF Len(segs) <= 2 THEN segs
    ELSE <<segs[1]>>
         \o SelectSeq(SubSeq(segs, 2, Len(segs) - 1), LAMBDA x : x # Empty)
         \o <<segs[Len(segs)]>>

\* the dot-segment loop of urljoin
RECURSIVE ResolveDots(_, _)
ResolveDots(segs, acc) ==
    IF Len(segs) = 0 THEN acc
    ELSE IF segs[1] = <<"..">>
    THEN ResolveDots(Tail(segs),
                     IF Len(acc) = 0 THEN acc ELSE SubSeq(acc, 1, Len(acc) - 1))
    ELSE ResolveDots(Tail(segs), Append(acc, segs[1]))

\* urllib.parse.urljoin
urljoin(base, url) ==
    LET OrRoot(p) == IF p = Empty THEN <<"/">> ELSE p
        Resolved(segments) ==
            IF segments[Len(segments)] = <<"..">>
            THEN Append(ResolveDots(segments, <<>>), Empty)
            ELSE ResolveDots(segments, <<>>)
        BaseSegments(bp) ==
            IF bp[Len(bp)] # Empty THEN SubSeq(bp, 1, Len(bp) - 1) ELSE bp
        Segments(bpath, upath) ==
            IF upath[1] = "/" THEN SplitSlash(upath)
            ELSE DropEmptyInner(BaseSegments(SplitSlash(bpath)) \o SplitSlash(upath))
        Path(bpath, upath) ==
            IF upath = Empty THEN bpath
            ELSE OrRoot(JoinSlash(Resolved(Segments(bpath, upath))))
        Joined(b, u, scheme) ==
            IF scheme # b.scheme \/ scheme \notin UsesRelative THEN url
            ELSE IF scheme \in UsesNetloc /\ u.netloc # Empty
            THEN urlunsplit(scheme, u.netloc, u.path)
            ELSE urlunsplit(scheme,
                            IF scheme \in UsesNetloc THEN b.netloc ELSE u.netloc,
                            Path(b.path, u.path))
        Split(b, u) ==
            Joined(b, u, IF u.scheme = Empty THEN b.scheme ELSE u.scheme)
    IN IF base = Empty THEN url
       ELSE IF url = Empty THEN base
       ELSE Split(urlsplit(base), urlsplit(url))

(***************************************************************************)
(* Base hrefs and href resolution                                          *)
(***************************************************************************)
\* Python truthiness of an optional string
Truthy(x) == x # None /\ x # Empty

Marker == <<"/", "collections", "/">>

\* _derive_base_href: scheme and netloc are required; the path is cut at
\* the first '/collections/', stripped of trailing slashes and given one
_derive_base_href(url) ==
    LET OrRoot(p) == IF p = Empty THEN <<"/">> ELSE p
        CutAt(p, m) == IF m > 0 THEN SubSeq(p, 1, m - 1) ELSE p
        BeforeMarker(p) == CutAt(p, IndexOfSub(p, Marker, 1))
        WithSlash(p) == IF ~EndsWith(p, <<"/">>) THEN p \o <<"/">> ELSE p
        Path(p) == WithSlash(OrRoot(RStripSlash(OrRoot(BeforeMarker(OrRoot(p))))))
        Base(parts) ==
            IF parts.scheme = Empty \/ parts.netloc = Empty THEN None
            ELSE urlunsplit(parts.scheme, parts.netloc, Path(parts.path))
    IN IF ~Truthy(url) THEN None ELSE Base(urlsplit(url))

\* _normalize_base_href
_normalize_base_href(base_href) ==
    IF ~Truthy(base_href) THEN None ELSE _derive_base_href(base_href)

\* _is_absolute_href
_is_absolute_href(href) ==
    LET Absolute(parts) == parts.scheme # Empty /\ parts.netloc # Empty
    IN IF ~Truthy(href) THEN FALSE ELSE Absolute(urlsplit(href))

\* _resolve_link_href
_resolve_link_href(target, base_href) ==
    LET OrRoot(p) == IF p = Empty THEN <<"/">> ELSE p
        OrTarget(joined) == IF joined # Empty THEN joined ELSE target
        Against(target_parts, base_parts) ==
            IF StartsWith(target_parts.path, <<"/">>)
            THEN urlunsplit(base_parts.scheme, base_parts.netloc,
                            OrRoot(RStripSlash(base_parts.path) \o target_parts.path))
            ELSE OrTarget(urljoin(base_href, target))
        Resolve(target_parts) ==
            IF target_parts.scheme # Empty THEN target
            ELSE IF Truthy(base_href) THEN Against(target_parts, urlsplit(base_href))
            ELSE target
    IN IF ~Truthy(target) THEN Empty ELSE Resolve(urlsplit(target))

(***************************************************************************)
(* Link descriptors.  A dict is a function on its keys; a value is one of  *)
(*   [t |-> "str", s |-> tokens]      a string                             *)
(*   [t |-> "list", elems |-> <<..>>] a list of values                     *)
(*   [t |-> "dict", fields |-> f]     a dict of values                     *)
(*   [t |-> "int", n |-> i]           any value that is none of these      *)
(* and a template string is [t |-> "tstr", parts |-> <<..>>], its parts    *)
(* literals, {name} placeholders, or a malformed replacement field.        *)
(***************************************************************************)
StrV(s) == [t |-> "str", s |-> s]

Lit(s) == [k |-> "lit", s |-> s]

Ph(name) == [k |-> "ph", name |-> name]

Bad == [k |-> "bad"]

TStr(parts) == [t |-> "tstr", parts |-> parts]

Failed == [ok |-> FALSE]

\* the None a function returns in place of a link descriptor
NoLink == [none |-> StrV(Empty)]

\* dict.get(key), None when the key is absent; strings as their tokens
GetStr(d, key) ==
    IF key \in DOMAIN d /\ d[key].t = "str" THEN d[key].s ELSE None

\* str.format_map(context) on the parts of a template string: a placeholder
\* the context lacks raises KeyError, a malformed field ValueError
RECURSIVE FormatParts(_, _)
FormatParts(parts, context) ==
    LET Piece(p) == IF p.k = "ph" THEN context[p.name] ELSE p.s
        Cons(p, rest) ==
            IF p.k = "bad" THEN Failed
            ELSE IF p.k = "ph" /\ p.name \notin DOMAIN context THEN Failed
            ELSE IF ~rest.ok THEN Failed
            ELSE [ok |-> TRUE, s |-> Piece(p) \o rest.s]
    IN IF Len(parts) = 0 THEN [ok |-> TRUE, s |-> Empty]
       ELSE Cons(parts[1], FormatParts(Tail(parts), context))

\* _format_template_value: strings are formatted, dicts and lists are
\* formatted member by member, anything else is returned as it is; an
\* exception in any member leaves the function
RECURSIVE _format_template_value(_, _)
_format_template_value(value, context) ==
    LET Str1(r) == IF r.ok THEN [ok |-> TRUE, v |-> StrV(r.s)] ELSE Failed
        Dict1(sub) ==
            IF \A key \in DOMAIN sub : sub[key].ok
            THEN [ok |-> TRUE,
                  v |-> [t |-> "dict", fields |-> [key \in DOMAIN sub |-> sub[key].v]]]
            ELSE Failed
        List1(sub) ==
            IF \A i \in DOMAIN sub : sub[i].ok
            THEN [ok |-> TRUE,
                  v |-> [t |-> "list", elems |-> [i \in DOMAIN sub |-> sub[i].v]]]
            ELSE Failed
    IN IF value.t = "tstr" THEN Str1(FormatParts(value.parts, context))
       ELSE IF value.t = "dict"
       THEN Dict1([key \in DOMAIN value.fields |->
                      _format_template_value(value.fields[key], context)])
       ELSE IF value.t = "list"
       THEN List1([i \in DOMAIN value.elems |->
                      _format_template_value(value.elems[i], context)])
       ELSE [ok |-> TRUE, v |-> value]

Related == StrV(<<"related">>)

ApplicationJson == StrV(<<"application/json">>)

\* dict.setdefault
SetDefault(d, key, value) ==
    [k \in DOMAIN d \cup {key} |-> IF k \in DOMAIN d THEN d[k] ELSE value]

RenderSkippingFailures(template, context) ==
    LET Defaults(rendered) ==
            IF "href" \notin DOMAIN rendered THEN NoLink
            ELSE SetDefault(SetDefault(rendered, "rel", Related),
                            "type", ApplicationJson)
        Rendered(sub) ==
            Defaults([key \in {k \in DOMAIN sub : sub[k].ok} |-> sub[key].v])
    IN Rendered([key \in DOMAIN template |->
                    _format_template_value(template[key], context)])

\* _render_link_template: None on any exception and without 'href'
_render_link_template(template, context) ==
    LET Defaults(rendered) ==
            IF "href" \notin DOMAIN rendered THEN NoLink
            ELSE SetDefault(SetDefault(rendered, "rel", Related),
                            "type", ApplicationJson)
        Rendered(sub) ==
            IF \E key \in DOMAIN sub : ~sub[key].ok THEN NoLink
            ELSE Defaults([key \in DOMAIN sub |-> sub[key].v])
    IN Rendered([key \in DOMAIN template |->
                    _format_template_value(template[key], context)])

\* the exception that leaves a function in place of its result
Raised == [raised |-> StrV(Empty)]

\* Python truthiness of a rendered value
TruthyValue(v) ==
    IF v.t = "str" THEN v.s # Empty
    ELSE IF v.t = "int" THEN v.n # 0
    ELSE IF v.t = "list" THEN Len(v.elems) > 0
    ELSE DOMAIN v.fields # {}

\* _prepare_link.  'rel' is a string when present.  An 'href' that is not
\* a string is never absolute as str(href) (line 558) and makes urlsplit
\* raise in the first _resolve_link_href (lines 570, 591)
_prepare_link(candidate, primary_base, fallback_base) ==
    LET One(n) == IF n # None THEN <<n>> ELSE <<>>
        OrRelated(rel) == IF Truthy(rel) THEN StrV(rel) ELSE Related
        Prepared(resolved_href) ==
            IF ~Truthy(resolved_href) \/ ~_is_absolute_href(resolved_href) THEN NoLink
            ELSE SetDefault([k \in DOMAIN candidate \cup {"href", "rel"} |->
                                IF k = "href" THEN StrV(resolved_href)
                                ELSE IF k = "rel" THEN OrRelated(GetStr(candidate, "rel"))
                                ELSE candidate[k]],
                            "type", ApplicationJson)
        Second(href_value, base_candidates, resolved_href) ==
            IF Len(base_candidates) >= 2 /\ ~_is_absolute_href(resolved_href)
            THEN _resolve_link_href(href_value, base_candidates[2])
            ELSE resolved_href
        First(href_value, base_candidates) ==
            IF Len(base_candidates) = 0 THEN None
            ELSE Second(href_value, base_candidates,
                        _resolve_link_href(href_value, base_candidates[1]))
        Resolved(href_value, base_candidates) ==
            IF _is_absolute_href(href_value) THEN href_value
            ELSE First(href_value, base_candidates)
        WithBases(href, base_candidates) ==
            IF href.t = "str" THEN Prepared(Resolved(href.s, base_candidates))
            ELSE IF Len(base_candidates) = 0 THEN NoLink
            ELSE Raised
        WithHref(href) ==
            IF ~TruthyValue(href) THEN NoLink
            ELSE WithBases(href, One(_normalize_base_href(primary_base))
                                 \o One(_normalize_base_href(fallback_base)))
    IN IF "href" \notin DOMAIN candidate THEN NoLink
       ELSE WithHref(candidate["href"])

\* _get_link_base_href: the base of the first 'self' link, else of the
\* first 'collection' link, whose href has a base
RECURSIVE FirstBaseOfRel(_, _)
FirstBaseOfRel(links, rel_name) ==
    LET OrRest(base) ==
            IF base # None THEN base ELSE FirstBaseOfRel(Tail(links), rel_name)
    IN IF Len(links) = 0 THEN None
       ELSE OrRest(IF GetStr(links[1], "rel") = rel_name
                   THEN _derive_base_href(GetStr(links[1], "href")) ELSE None)

_get_link_base_href(links) ==
    LET OrCollection(b) ==
            IF b # None THEN b ELSE FirstBaseOfRel(links, <<"collection">>)
    IN OrCollection(FirstBaseOfRel(links, <<"self">>))

LinkKeyWithType(link) ==
    <<GetStr(link, "rel"), GetStr(link, "href"), GetStr(link, "type")>>

\* the key of a link in existing_links, lines 504-508 and 520
LinkKey(link) == <<GetStr(link, "rel"), GetStr(link, "href")>>

\* the loop of _merge_links, lines 514-526: an exception of _prepare_link
\* leaves the loop with the links appended so far
RECURSIVE MergeLoop(_, _, _, _)
MergeLoop(links, candidates, normalized_base, fallback_base) ==
    LET Merged(prepared) ==
            IF prepared = NoLink THEN links
            ELSE IF \E i \in DOMAIN links : LinkKey(links[i]) = LinkKey(prepared)
            THEN links
            ELSE Append(links, prepared)
        Step(prepared) ==
            IF prepared = Raised THEN [links |-> links, raised |-> TRUE]
            ELSE MergeLoop(Merged(prepared), Tail(candidates),
                           normalized_base, fallback_base)
    IN IF Len(candidates) = 0 THEN [links |-> links, raised |-> FALSE]
       ELSE Step(_prepare_link(candidates[1], normalized_base, fallback_base))

\* _merge_links: the feature's links afterwards, and whether it raised
_merge_links(links, candidates, base_href) ==
    LET OrBase(existing_base, normalized_base) ==
            IF Truthy(existing_base) THEN existing_base ELSE normalized_base
        Loop(normalized_base) ==
            MergeLoop(links, candidates, normalized_base,
                      OrBase(_get_link_base_href(links), normalized_base))
    IN Loop(_normalize_base_href(base_href))

(***************************************************************************)
(* _add_provider_links on one feature                                      *)
(***************************************************************************)
Absent == [t |-> "absent"]

\* the 'href' values of the configured templates
HrefTemplates ==
    { Absent,
      TStr(<<>>),
      TStr(<<Lit(<<"/", "items", "/">>), Ph("id")>>),
      TStr(<<Lit(<<"http", ":", "/", "/", "x", "/", "items", "/">>), Ph("id")>>),
      TStr(<<Lit(<<"items", "/">>), Ph("name")>>),
      TStr(<<Lit(<<"..", "/">>), Ph("id")>>),
      TStr(<<Lit(<<"x", ":">>), Ph("id")>>),
      TStr(<<Lit(<<"/", "/", "x", "/">>), Ph("id")>>),
      TStr(<<Lit(<<"/", "items", "/">>), Ph("missing_field")>>),
      TStr(<<Lit(<<"/", "items", "/">>), Bad>>),
      [t |-> "int", n |-> 42] }

RelTemplates ==
    { Absent, TStr(<<Lit(<<"self">>)>>), TStr(<<Ph("name")>>), TStr(<<>>) }

TypeTemplates == { Absent, TStr(<<Lit(<<"text/html">>)>>) }

\* another member of the descriptor, nested up to two levels
TitleTemplates ==
    { Absent,
      TStr(<<Ph("missing_field")>>),
      [t |-> "int", n |-> 5],
      [t |-> "list", elems |-> <<TStr(<<Ph("name")>>)>>],
      [t |-> "dict", fields |-> [a |-> TStr(<<Lit(<<"x">>), Ph("id")>>)]],
      [t |-> "dict",
       fields |-> [a |-> [t |-> "list", elems |->
                            <<TStr(<<Lit(<<"x">>)>>), TStr(<<Ph("missing_field")>>)>>]]] }

MakeTemplate(href, rel, type, title) ==
    LET Present(all) == [key \in {k \in DOMAIN all : all[k] # Absent} |-> all[key]]
    IN Present([href |-> href, rel |-> rel, type |-> type, title |-> title])

Templates ==
    {MakeTemplate(h, r, y, t) : h \in HrefTemplates, r \in RelTemplates,
                                y \in TypeTemplates, t \in TitleTemplates}

\* two templates that differ, each with or without rel 'self'
MixedLists ==
    {<<MakeTemplate(h1, r1, Absent, Absent), MakeTemplate(h2, r2, Absent, Absent)>> :
        h1 \in HrefTemplates, h2 \in HrefTemplates,
        r1 \in {Absent, TStr(<<Lit(<<"self">>)>>)},
        r2 \in {Absent, TStr(<<Lit(<<"self">>)>>)}}

\* link_templates of the provider: none, one template, the same twice, or
\* two that differ
TemplateLists ==
    {<<>>} \cup {<<t>> : t \in Templates} \cup {<<t, t>> : t \in Templates}
    \cup MixedLists

\* top-level properties of the feature
PropertySets == {EmptyDict, [name |-> <<"x">>]}

\* links_base passed to _merge_links
BaseHrefs ==
    { None,
      <<"http", ":", "/", "/", "x", "/">>,
      <<"http", ":", "/", "/", "x", "/", "geoapi", "/">>,
      <<"http", ":", "/", "/", "x", "/", "geoapi", "/", "collections", "/", "x", "/", "items">>,
      <<"x", ":", "/", "/", "x", "/">>,
      <<"http", ":", "/", "x">>,
      <<"x">> }

\* the 'links' the feature has before the merge
SelfLink ==
    [rel |-> StrV(<<"self">>),
     href |-> StrV(<<"http", ":", "/", "/", "x", "/", "geoapi", "/",
                     "collections", "/", "x", "/", "items", "/", "42">>)]

RelatedLink ==
    [rel |-> StrV(<<"related">>),
     href |-> StrV(<<"http", ":", "/", "/", "x", "/", "items", "/", "42">>)]

ExistingLinks == {<<>>, <<SelfLink>>, <<RelatedLink>>, <<RelatedLink, SelfLink>>}

\* the feature_id of the feature
FeatureId == <<"42">>

\* format_context of _add_provider_links: the id, then the properties
FormatContext(feature_id, properties) ==
    Update([id |-> feature_id], properties)

LinksInit ==
    lk \in [pc : {"input"},
            link_templates : TemplateLists,
            properties : PropertySets,
            base_href : BaseHrefs,
            links : ExistingLinks,
            before : {<<>>},
            once : {<<>>},
            rendered : {<<>>},
            candidates : {<<>>}]

\* _add_provider_links: nothing without link_templates; every template is
\* rendered, the rendered ones are kept and, when there are any, merged
\* into the feature's links
AddProviderLinks ==
    /\ lk.pc = "input"
    /\ LET Merged(merged) ==
               [lk EXCEPT !.pc = IF merged.raised THEN "raised" ELSE "done",
                          !.links = merged.links]
           WithCandidates(rendered, link_candidates) ==
               [(IF Len(link_candidates) = 0 THEN [lk EXCEPT !.pc = "done"]
                 ELSE Merged(_merge_links(lk.links, link_candidates, lk.base_href)))
                EXCEPT !.before = lk.links,
                       !.rendered = rendered,
                       !.candidates = link_candidates]
           WithRendered(rendered) ==
               WithCandidates(rendered, SelectSeq(rendered, LAMBDA r : r # NoLink))
           WithContext(format_context) ==
               WithRendered([i \in DOMAIN lk.link_templates |->
                               _render_link_template(lk.link_templates[i],
                                                     format_context)])
       IN lk' = WithContext(FormatContext(FeatureId, lk.properties))
    /\ UNCHANGED <<rows, hasProps, now, cache, th, cf, fm, rh, bu>>

\* _merge_links called once more with the same candidates and base, on the
\* links the first call left
MergeAgain ==
    /\ lk.pc = "done"
    /\ Len(lk.candidates) > 0
    /\ LET Merged(merged) ==
               [lk EXCEPT !.pc = IF merged.raised THEN "raised_again" ELSE "again",
                          !.once = lk.links,
                          !.links = merged.links]
       IN lk' = Merged(_merge_links(lk.links, lk.candidates, lk.base_href))
    /\ UNCHANGED <<rows, hasProps, now, cache, th, cf, fm, rh, bu>>

InitLinks == NavIdle /\ cf = Off /\ fm = Off /\ LinksInit /\ rh = Off /\ bu = Off

NextLinks == AddProviderLinks \/ MergeAgain

SpecLinks == InitLinks /\ [][NextLinks]_vars

(***************************************************************************)
(* Claims about link rendering and merging                                 *)
(***************************************************************************)
\* names of the placeholders of a template value, at any nesting depth
RECURSIVE Placeholders(_)
Placeholders(value) ==
    IF value.t = "tstr"
    THEN {value.parts[i].name : i \in {j \in DOMAIN value.parts : value.parts[j].k = "ph"}}
    ELSE IF value.t = "dict"
    THEN UNION {Placeholders(value.fields[key]) : key \in DOMAIN value.fields}
    ELSE IF value.t = "list"
    THEN UNION {Placeholders(value.elems[i]) : i \in DOMAIN value.elems}
    ELSE {}

\* a template value holds a malformed replacement field, at any depth
RECURSIVE Malformed(_)
Malformed(value) ==
    IF value.t = "tstr" THEN \E i \in DOMAIN value.parts : value.parts[i].k = "bad"
    ELSE IF value.t = "dict"
    THEN \E key \in DOMAIN value.fields : Malformed(value.fields[key])
    ELSE IF value.t = "list"
    THEN \E i \in DOMAIN value.elems : Malformed(value.elems[i])
    ELSE FALSE

\* the text of a template string once every placeholder has its value
RECURSIVE Filled(_, _)
Filled(parts, context) ==
    IF Len(parts) = 0 THEN Empty
    ELSE (IF parts[1].k = "lit" THEN parts[1].s ELSE context[parts[1].name])
         \o Filled(Tail(parts), context)

\* a template value with every placeholder substituted
RECURSIVE Substituted(_, _)
Substituted(value, context) ==
    IF value.t = "tstr" THEN StrV(Filled(value.parts, context))
    ELSE IF value.t = "dict"
    THEN [t |-> "dict",
          fields |-> [key \in DOMAIN value.fields |->
                         Substituted(value.fields[key], context)]]
    ELSE IF value.t = "list"
    THEN [t |-> "list",
          elems |-> [i \in DOMAIN value.elems |-> Substituted(value.elems[i], context)]]
    ELSE value

\* every placeholder of the template resolves and no field is malformed
Renders(template, context) ==
    \A key \in DOMAIN template :
        /\ Placeholders(template[key]) \subseteq DOMAIN context
        /\ ~Malformed(template[key])

\* the result is the template with every value substituted and the
\* defaults of 'rel' and 'type'
FullyRendered(template, context, result) ==
    /\ result # NoLink
    /\ DOMAIN result = DOMAIN template \cup {"rel", "type"}
    /\ \A key \in DOMAIN template : result[key] = Substituted(template[key], context)
    /\ "rel" \notin DOMAIN template => result["rel"] = StrV(<<"related">>)
    /\ "type" \notin DOMAIN template => result["type"] = StrV(<<"application/json">>)

Finished == lk.pc \in {"done", "raised"}

\* C9: _render_link_template is all-or-nothing.  A template with a
\* placeholder (at any depth) that the context of id and properties lacks,
\* with any other rendering error, or without 'href', yields no link;
\* every other template yields the descriptor with every value fully
\* substituted, 'rel' defaulting to "related" and 'type' to
\* "application/json".
C9_RenderAllOrNothing ==
    Finished =>
        \A i \in DOMAIN lk.link_templates :
            IF /\ Renders(lk.link_templates[i], FormatContext(FeatureId, lk.properties))
               /\ "href" \in DOMAIN lk.link_templates[i]
            THEN FullyRendered(lk.link_templates[i],
                               FormatContext(FeatureId, lk.properties),
                               lk.rendered[i])
            ELSE lk.rendered[i] = NoLink

\* C9 witness: a template whose 'href' renders and whose nested 'title'
\* holds {missing_field} was rendered to no link, and the same 'href'
\* under a resolvable 'title' is a case of the other branch
C9_Witness ==
    /\ Finished
    /\ \E i \in DOMAIN lk.link_templates :
          /\ "href" \in DOMAIN lk.link_templates[i]
          /\ "title" \in DOMAIN lk.link_templates[i]
          /\ Placeholders(lk.link_templates[i]["href"]) = {"id"}
          /\ lk.link_templates[i]["title"].t = "dict"
          /\ "missing_field" \in Placeholders(lk.link_templates[i]["title"])
          /\ lk.rendered[i] = NoLink

\* an href with a scheme and an authority: letters-first scheme tokens, ":",
\* "//", and then something other than "/"
AbsoluteSyntax(h) ==
    \E i \in 2 .. Len(h) :
        /\ h[i] = ":"
        /\ h[1] \in AlphaTokens
        /\ \A j \in 1 .. (i - 1) : h[j] \in SchemeTokens
        /\ Len(h) >= i + 3
        /\ h[i + 1] = "/"
        /\ h[i + 2] = "/"
        /\ h[i + 3] # "/"

\* the links _merge_links appended
Appended == {j \in DOMAIN lk.links : j > Len(lk.before)}

\* the bases _merge_links hands to _prepare_link
FallbackBase ==
    IF Truthy(_get_link_base_href(lk.before)) THEN _get_link_base_href(lk.before)
    ELSE _normalize_base_href(lk.base_href)

\* C10: every link _merge_links appends has an absolute href, and for
\* every candidate, under the primary and fallback base of the merge,
\* _prepare_link either returns a link with an absolute href or drops the
\* candidate.
C10_AbsoluteOrDropped ==
    Finished =>
        /\ \A j \in Appended :
              /\ lk.links[j]["href"].t = "str"
              /\ AbsoluteSyntax(lk.links[j]["href"].s)
        /\ \A i \in DOMAIN lk.candidates :
              \/ _prepare_link(lk.candidates[i], lk.base_href, FallbackBase) = NoLink
              \/ /\ _prepare_link(lk.candidates[i], lk.base_href, FallbackBase) # Raised
                 /\ AbsoluteSyntax(_prepare_link(lk.candidates[i], lk.base_href,
                                                 FallbackBase)["href"].s)

\* the coordinates the claim gives the feature of cf: those of the record,
\* reprojected under a transform, and with the axes swapped for the
\* latitude/longitude form EPSG:4326 only
ClaimedGeometry ==
    IF cf.geom = None THEN None
    ELSE IF cf.crs_uri = "http://www.opengis.net/def/crs/EPSG/0/4326"
    THEN (IF cf.coord_trans THEN <<cf.geom[2] + 20, cf.geom[1] + 10>>
          ELSE <<cf.geom[2], cf.geom[1]>>)
    ELSE (IF cf.coord_trans THEN <<cf.geom[1] + 10, cf.geom[2] + 20>> ELSE cf.geom)

\* C14: _create_feature yields, without error, a feature whose geometry
\* has its axes swapped if and only if the target CRS is EPSG:4326 (not for
\* CRS84, not for any other CRS), and null for a record with null geometry.
C14_SwapOnlyForEpsg4326 ==
    cf.pc = "done" =>
        /\ cf.result.status = "ok"
        /\ cf.result.geometry = ClaimedGeometry

\* handler t returns from get() in this step, from a call whose identifier
\* is the text of the key of a row of the store
ReturnsForExistingRow(t) ==
    /\ th'[t] # th[t]
    /\ th'[t].pc = "done"
    /\ th'[t].identifier = Str(ParseInt(th'[t].identifier))
    /\ ParseInt(th'[t].identifier) \in rows'

\* C15: a get(identifier) for a row that exists, with the identifier
\* equal to the stringified key, returns a feature with both 'prev' and
\* 'next', each a member of the identifier sequence the cache holds when
\* get returns; a feature without navigation has neither of the two.
C15_ExistingRowHasPrevNext ==
    [][\A t \in Threads :
          /\ th'[t].result # "nav" => (th'[t].prev = None /\ th'[t].next = None)
          /\ ReturnsForExistingRow(t) =>
                IF th'[t].result = "nav"
                THEN /\ Live(cache', now')
                     /\ \E i \in DOMAIN cache'.ids : cache'.ids[i] = th'[t].prev
                     /\ \E i \in DOMAIN cache'.ids : cache'.ids[i] = th'[t].next
                ELSE FALSE]_vars

\* the (rel, href) pair of a link
RelHref(link) == <<link["rel"], link["href"]>>

\* the links before the call are kept, unaltered and in place, and no link
\* added after them repeats the (rel, href) pair of a link before it
AddsNoDuplicate(before, after) ==
    /\ Len(after) >= Len(before)
    /\ SubSeq(after, 1, Len(before)) = before
    /\ \A j \in (Len(before) + 1) .. Len(after) :
          \A i \in 1 .. (j - 1) : RelHref(after[i]) # RelHref(after[j])

\* C12 as stated: _merge_links adds no link whose (rel, href) pair is
\* already in 'links', never removes or alters a pre-existing link, and
\* merging the same candidate list twice leaves 'links' identical to
\* merging it once.
C12_MergeTwiceIsMergeOnce ==
    /\ lk.pc \in {"done", "raised", "again", "raised_again"} =>
          AddsNoDuplicate(lk.before, lk.links)
    /\ lk.pc \in {"again", "raised_again"} => AddsNoDuplicate(lk.once, lk.links)
    /\ lk.pc = "again" => lk.links = lk.once

\* C12 amended: the same, but the second merge leaves 'links' identical
\* only when the links the first merge left derive the same fallback base
\* (_get_link_base_href) as the links before it; a 'self' or 'collection'
\* link added by the first merge can give the second one a base for a
\* candidate the first one dropped.
C12_NoDuplicatePairs ==
    /\ lk.pc \in {"done", "raised", "again", "raised_again"} =>
          AddsNoDuplicate(lk.before, lk.links)
    /\ lk.pc \in {"again", "raised_again"} => AddsNoDuplicate(lk.once, lk.links)
    /\ (lk.pc = "again"
          /\ _get_link_base_href(lk.once) = _get_link_base_href(lk.before)) =>
          lk.links = lk.once

\* C12 witness: the same link rendered twice and merged twice is one entry
C12_Witness ==
    /\ lk.pc = "again"
    /\ Len(lk.candidates) = 2
    /\ lk.candidates[1] = lk.candidates[2]
    /\ Len(lk.once) = Len(lk.before) + 1
    /\ Len(lk.before) > 0
    /\ lk.links = lk.once

(***************************************************************************)
(* _resolve_link_href on one href and one base                             *)
(***************************************************************************)
MaxHrefLen == 3

HrefTokens == {"/", ":", "http", "x", "items", "42", ".."}

RECURSIVE StringsUpTo(_, _)
StringsUpTo(tokens, n) ==
    IF n = 0 THEN {Empty}
    ELSE StringsUpTo(tokens, n - 1)
         \cup {Append(s, t) : s \in StringsUpTo(tokens, n - 1), t \in tokens}

\* the hrefs handed to _resolve_link_href: every short string, and the
\* hrefs of the documentation
Hrefs ==
    StringsUpTo(HrefTokens, MaxHrefLen)
    \cup { <<"/", "items", "/", "42">>,
           <<"items", "/", "42">>,
           <<"/", "/", "x", "/", "42">>,
           <<"http", ":", "/", "/", "x", "/", "items", "/", "42">> }

ResolveInit ==
    rh \in [pc : {"input"}, target : Hrefs, base_url : BaseHrefs,
            base_href : {None}, result : {Empty}]

\* _prepare_link, lines 562-570: the base is normalized, then the href is
\* resolved against it
ResolveHref ==
    /\ rh.pc = "input"
    /\ rh' = [rh EXCEPT
                !.pc = "done",
                !.base_href = _normalize_base_href(rh.base_url),
                !.result = _resolve_link_href(rh.target,
                                              _normalize_base_href(rh.base_url))]
    /\ UNCHANGED <<rows, hasProps, now, cache, th, cf, fm, lk, bu>>

InitResolve == NavIdle /\ cf = Off /\ fm = Off /\ lk = Off /\ ResolveInit /\ bu = Off

NextResolve == ResolveHref

SpecResolve == InitResolve /\ [][NextResolve]_vars

\* C11: an href that is already absolute is returned unchanged, and an
\* href starting with "/" is appended to the path prefix of the normalized
\* base, under the base's scheme and host: the result is the base without
\* its trailing "/" followed by the href.
C11_SlashHrefKeepsPrefix ==
    rh.pc = "done" =>
        /\ AbsoluteSyntax(rh.target) => rh.result = rh.target
        /\ (rh.base_href # None /\ StartsWith(rh.target, <<"/">>)) =>
              rh.result = RStripSlash(rh.base_href) \o rh.target

(***************************************************************************)
(* _determine_links_base_url                                               *)
(*   kwargs.request     the attributes of the request object, each a       *)
(*                      value, a callable returning one, or a callable that *)
(*                      raises; has_request tells whether there is one      *)
(*   kwargs.context     the values of the explicit keys, None when absent   *)
(*   kwargs.headers     the header values, None when absent; Forwarded as   *)
(*                      its comma-separated entries, each the list of its   *)
(*                      ';'-separated elements                              *)
(***************************************************************************)
MaxCandidates == 3

RequestAttrs == <<"url_root", "host_url", "base_url", "url">>

ContextKeys == <<"request_url_root", "request_url", "url_root", "base_url", "url">>

\* getattr(request, attr, None), called when callable (lines 440-446)
AttrValue(v) ==
    IF v.kind = "str" \/ v.kind = "callable" THEN v.s ELSE None

\* lines 438-449 and 451-455: the truthy values, in the order of the names
RECURSIVE TruthyValues(_, _)
TruthyValues(names, valueOf) ==
    IF Len(names) = 0 THEN <<>>
    ELSE (IF Truthy(valueOf[names[1]]) THEN <<valueOf[names[1]]>> ELSE <<>>)
         \o TruthyValues(Tail(names), valueOf)

\* a or b
Or(a, b) == IF Truthy(a) THEN a ELSE b

\* f'{proto}://{host}/' when both are truthy (lines 464-465, 483-484)
ProtoHost(proto, host) ==
    IF Truthy(proto) /\ Truthy(host)
    THEN <<proto \o <<":", "/", "/">> \o host \o <<"/">>>>
    ELSE <<>>

\* key.strip().lower() of the keys of the model
StripLower(key) ==
    IF key \in {"proto", "Proto", " proto"} THEN "proto"
    ELSE IF key \in {"host", "HOST", "host "} THEN "host"
    ELSE key

\* lines 473-478 and parts.get: the value of the last element 'key=value'
\* of the entry whose key is the given one
RECURSIVE PartOf(_, _)
PartOf(elements, key) ==
    LET Last(e, before) ==
            IF e.eq /\ StripLower(e.key) = key THEN e.value ELSE before
    IN IF Len(elements) = 0 THEN None
       ELSE Last(elements[Len(elements)],
                 PartOf(SubSeq(elements, 1, Len(elements) - 1), key))

\* lines 467-484: the candidate of the first entry of the Forwarded header
ForwardedCandidate(forwarded) ==
    IF ~forwarded.present THEN <<>>
    ELSE IF Len(forwarded.entries) = 0 THEN <<>>
    ELSE ProtoHost(PartOf(forwarded.entries[1], "proto"),
                   PartOf(forwarded.entries[1], "host"))

\* lines 457-484
HeaderCandidates(has_headers, headers) ==
    IF ~has_headers THEN <<>>
    ELSE ProtoHost(Or(headers["X-Forwarded-Proto"], headers["Forwarded-Proto"]),
                   Or(headers["X-Forwarded-Host"], headers["Host"]))
         \o ForwardedCandidate(headers["Forwarded"])

\* lines 489-495: the base of the first candidate that has one
RECURSIVE FirstBase(_)
FirstBase(candidates) ==
    LET OrNext(base) == IF Truthy(base) THEN base ELSE FirstBase(Tail(candidates))
    IN IF Len(candidates) = 0 THEN None
       ELSE OrNext(_normalize_base_href(candidates[1]))

RequestCandidates(kwargs) ==
    IF kwargs.has_request
    THEN TruthyValues(RequestAttrs, [a \in DOMAIN kwargs.request |->
                                        AttrValue(kwargs.request[a])])
    ELSE <<>>

ProviderCandidate(provider_base) ==
    IF Truthy(provider_base) THEN <<provider_base>> ELSE <<>>

DetermineProviderFirst(kwargs, provider_base) ==
    FirstBase(ProviderCandidate(provider_base)
              \o RequestCandidates(kwargs)
              \o TruthyValues(ContextKeys, kwargs.context)
              \o HeaderCandidates(kwargs.has_headers, kwargs.headers))

\* _determine_links_base_url
_determine_links_base_url(kwargs, provider_base) ==
    FirstBase(RequestCandidates(kwargs)
              \o TruthyValues(ContextKeys, kwargs.context)
              \o HeaderCandidates(kwargs.has_headers, kwargs.headers)
              \o ProviderCandidate(provider_base))

\* where a candidate can come from, in the order of the code
RequestSources == <<"request.url_root", "request.host_url", "request.base_url", "request.url">>

ContextSources ==
    <<"kwargs.request_url_root", "kwargs.request_url", "kwargs.url_root", "kwargs.base_url", "kwargs.url">>

Sources ==
    RequestSources \o ContextSources \o <<"x-forwarded", "forwarded", "provider">>

\* what a source holds.  "absent": nothing; "bad": a value without scheme
\* or host; "good": a URL with both; "callable": a callable returning one;
\* "raises": a callable that raises; "empty": ''; "alt": Forwarded-Proto and
\* Host in place of X-Forwarded-Proto and X-Forwarded-Host; "proto_only":
\* no host header; "second": only the second Forwarded entry names both
\* proto and host; "upper": keys 'Proto' and 'HOST', after a 'proto' that
\* the later one replaces
KindsOf(source) ==
    IF source \in {RequestSources[i] : i \in DOMAIN RequestSources}
    THEN {"bad", "good", "callable", "raises"}
    ELSE IF source \in {ContextSources[i] : i \in DOMAIN ContextSources}
    THEN {"bad", "good", "empty"}
    ELSE IF source = "x-forwarded" THEN {"bad", "good", "alt", "proto_only"}
    ELSE IF source = "forwarded" THEN {"bad", "good", "second", "upper"}
    ELSE {"bad", "good"}

\* the kinds of the sources from the i-th on, at most budget of them
\* other than "absent"
RECURSIVE KindsFrom(_, _)
KindsFrom(i, budget) ==
    IF i > Len(Sources) THEN {<<>>}
    ELSE {<<"absent">> \o rest : rest \in KindsFrom(i + 1, budget)}
         \cup (IF budget = 0 THEN {}
               ELSE {<<kind>> \o rest : kind \in KindsOf(Sources[i]),
                                        rest \in KindsFrom(i + 1, budget - 1)})

\* the sources that hold something: at most budget of them
SourceChoices(budget) ==
    {[src \in {Sources[i] : i \in DOMAIN Sources} |->
         kinds[CHOOSE i \in DOMAIN Sources : Sources[i] = src]] :
     kinds \in KindsFrom(1, budget)}

\* a URL of the source, inside a collection of the API
GoodUrl(source) ==
    <<"http", ":", "/", "/", "x", "/", source, "/", "collections", "/", "x", "/", "items">>

BadUrl == <<"/", "x", "/", "collections">>

UrlOf(source, kind) ==
    IF kind \in {"good", "callable"} THEN GoodUrl(source)
    ELSE IF kind = "bad" THEN BadUrl
    ELSE IF kind = "empty" THEN Empty
    ELSE None

Element(key, value) == [eq |-> TRUE, key |-> key, value |-> value]

Bare(text) == [eq |-> FALSE, key |-> text, value |-> Empty]

ForwardedOf(kind) ==
    IF kind = "good"
    THEN [present |-> TRUE,
          entries |-> << <<Bare("for"), Element("proto", <<"http">>),
                           Element("host", <<"fwd">>)>>,
                         <<Element("proto", <<"x">>), Element("host", <<"x">>)>> >>]
    ELSE IF kind = "bad"
    THEN [present |-> TRUE,
          entries |-> << <<Element("proto", <<"42">>), Element("host", <<"fwd">>)>> >>]
    ELSE IF kind = "second"
    THEN [present |-> TRUE,
          entries |-> << <<Element("for", <<"x">>), Element("proto", <<"http">>)>>,
                         <<Element("proto", <<"http">>), Element("host", <<"fwd">>)>> >>]
    ELSE IF kind = "upper"
    THEN [present |-> TRUE,
          entries |-> << <<Element("proto", <<"42">>), Element(" proto", <<"42">>),
                           Element("Proto", <<"http">>), Element("HOST", <<"fwd">>)>> >>]
    ELSE [present |-> FALSE, entries |-> <<>>]

HeadersOf(xf, forwarded) ==
    [h \in {"X-Forwarded-Proto", "Forwarded-Proto", "X-Forwarded-Host", "Host", "Forwarded"} |->
        IF h = "Forwarded" THEN ForwardedOf(forwarded)
        ELSE IF h = "X-Forwarded-Proto"
        THEN (IF xf \in {"good", "proto_only"} THEN <<"http">>
              ELSE IF xf = "bad" THEN <<"42">> ELSE None)
        ELSE IF h = "Forwarded-Proto" THEN (IF xf = "alt" THEN <<"http">> ELSE None)
        ELSE IF h = "X-Forwarded-Host"
        THEN (IF xf \in {"good", "bad"} THEN <<"xf">> ELSE None)
        ELSE (IF xf = "alt" THEN <<"xf">> ELSE None)]

\* the kwargs of a request whose sources hold these kinds of value
KwargsOf(kinds) ==
    [has_request |-> \E i \in DOMAIN RequestSources : kinds[RequestSources[i]] # "absent",
     request |-> [a \in {RequestAttrs[i] : i \in DOMAIN RequestAttrs} |->
                    LET Value(i) ==
                            IF kinds[RequestSources[i]] \in {"good", "bad"}
                            THEN [kind |-> "str",
                                  s |-> UrlOf(RequestSources[i], kinds[RequestSources[i]])]
                            ELSE IF kinds[RequestSources[i]] = "callable"
                            THEN [kind |-> "callable",
                                  s |-> UrlOf(RequestSources[i], "callable")]
                            ELSE IF kinds[RequestSources[i]] = "raises"
                            THEN [kind |-> "raises", s |-> Empty]
                            ELSE [kind |-> "none", s |-> Empty]
                    IN Value(CHOOSE i \in DOMAIN RequestAttrs : RequestAttrs[i] = a)],
     context |-> [k \in {ContextKeys[i] : i \in DOMAIN ContextKeys} |->
                    LET Value(i) == UrlOf(ContextSources[i], kinds[ContextSources[i]])
                    IN Value(CHOOSE i \in DOMAIN ContextKeys : ContextKeys[i] = k)],
     has_headers |-> kinds["x-forwarded"] # "absent" \/ kinds["forwarded"] # "absent",
     headers |-> HeadersOf(kinds["x-forwarded"], kinds["forwarded"])]

BaseUrlInit ==
    bu \in {[pc |-> "input", kinds |-> kinds, kwargs |-> KwargsOf(kinds),
             provider_base |-> UrlOf("provider", kinds["provider"]),
             result |-> None] : kinds \in SourceChoices(MaxCandidates)}

\* get, line 192: links_base = _determine_links_base_url(kwargs, links_base_url)
DetermineLinksBaseUrl ==
    /\ bu.pc = "input"
    /\ bu' = [bu EXCEPT !.pc = "done",
                        !.result = _determine_links_base_url(bu.kwargs, bu.provider_base)]
    /\ UNCHANGED <<rows, hasProps, now, cache, th, cf, fm, lk, rh>>

InitBaseUrl == NavIdle /\ cf = Off /\ fm = Off /\ lk = Off /\ rh = Off /\ BaseUrlInit

NextBaseUrl == DetermineLinksBaseUrl

SpecBaseUrl == InitBaseUrl /\ [][NextBaseUrl]_vars

\* the kinds of value that normalize to a base
Normalizes(kind) == kind \in {"good", "callable", "alt", "upper"}

\* the base a source that normalizes yields: scheme, host and the path
\* before '/collections/', with a trailing '/'
BaseOf(source) ==
    IF source = "x-forwarded" THEN <<"http", ":", "/", "/", "xf", "/">>
    ELSE IF source = "forwarded" THEN <<"http", ":", "/", "/", "fwd", "/">>
    ELSE <<"http", ":", "/", "/", "x", "/", source, "/">>

\* C13: the result is the normalization of the first source, in the order
\* request attributes (url_root, host_url, base_url, url), explicit context
\* keys, X-Forwarded headers, first Forwarded entry, provider base, whose
\* candidate normalizes; sources before it that do not normalize are
\* skipped; the result is None only when no source normalizes.
C13_FirstNormalizedCandidate ==
    bu.pc = "done" =>
        IF \E i \in DOMAIN Sources : Normalizes(bu.kinds[Sources[i]])
        THEN \E i \in DOMAIN Sources :
                /\ Normalizes(bu.kinds[Sources[i]])
                /\ \A j \in 1 .. (i - 1) : ~Normalizes(bu.kinds[Sources[j]])
                /\ bu.result = BaseOf(Sources[i])
        ELSE bu.result = None

\* C13 witness: a request attribute and a context key hold values without
\* scheme or host, and the provider base, last in order, is returned
C13_Witness ==
    /\ bu.pc = "done"
    /\ bu.kinds["request.url_root"] = "bad"
    /\ bu.kinds["kwargs.url"] = "bad"
    /\ bu.kinds["provider"] = "good"
    /\ bu.result = BaseOf("provider")

=============================================================================
